---- MODULE Spec2Model ----
(***************************************************************************)
(* Model of the privacy engine of the healthcare data warehouse            *)
(* (src/privacy_engine.py, class PrivacyEngine): the differential-privacy  *)
(* budget ledger, the k-anonymity, l-diversity and t-closeness checkers,    *)
(* the distribution distance, the comprehensive audit and the k-anonymity  *)
(* enforcer, acting on a pandas DataFrame owned by the caller.             *)
(*                                                                         *)
(* Numbers: epsilon values and the threshold t are Python floats in the    *)
(* source.  They are modelled as exact integers counting units of 0.05 (so *)
(* 0.1 is 2, 0.15 is 3, 0.2 is 4 and the literal 1.0 is 20).  A mean is    *)
(* kept as the pair sum / count, a distance as an exact fraction in lowest *)
(* terms: the rounding of binary floating point is not modelled.           *)
(***************************************************************************)
EXTENDS Integers, Sequences, FiniteSets, TLC

VARIABLES k, l, t, privacy_budget, df, op, raised, ret, now,
          budget_report, calls

vars == <<k, l, t, privacy_budget, df, op, raised, ret, now,
          budget_report, calls>>

----------------------------------------------------------------------------
(* Bounds of the model *)

MaxK == 2
MaxL == 3
MaxRecords == 3
MaxQueries == 3
MaxCount == 2

----------------------------------------------------------------------------
(* Values *)

\* Python None / SQL NULL in a column of the DataFrame
None == "None"

\* float('nan'), the value pandas gives a row that belongs to no group
NaN == -1

\* the defaults of PrivacyEngine(k=5, l=3, t=0.2), t in units of 0.05
DefaultK == 5
DefaultL == 3
DefaultT == 4

\* thresholds t a caller constructs the engine with: 0, 0.2, 0.5 and 1.0
TChoices == {0, 4, 10, 20}

\* arguments a caller passes to PrivacyEngine(k, l, t), which stores them as
\* they are: k of 0, 1 and 5, l of 0 and 3, t of -0.2, 0.2 and 1.5
ConstructorK == {0, 1, 5}
ConstructorL == {0, 3}
ConstructorT == {-4, 4, 30}

\* the float 1.0 in the units of 0.05 that t is counted in
UnitsPerOne == 20

\* the score of a check that passes: 100 if ... else 0
PassScore == 100

\* the slice violations[:10] of check_t_closeness
ViolationsListed == 10

\* the strings of the quasi-identifier columns in the order of Python's <
StringOrder == <<"18-30", "61-75", "Adult (18-60)", "F", "Senior (60+)">>

\* the literal 1.0 of get_privacy_budget_report, in units of 0.05
RecommendedMax == 20

\* epsilon costs a caller reports, in units of 0.05: -0.1, 0, 0.1, 0.15, 0.75
EpsilonChoices == {-2, 0, 2, 3, 15}

QueryNames == {"age_group_analysis", "diagnosis_distribution"}

\* columns of the query of main()
BaseColumns == {"age_group", "gender", "diagnosis"}

AgeGroups == {"18-30", "61-75"}
Genders == {"F", None}
Diagnoses == {"flu", "copd"}

Rows == [age_group : AgeGroups, gender : Genders, diagnosis : Diagnoses]

QuasiIdentifierChoices ==
  {<<"age_group">>, <<"age_group", "gender">>, <<"gender">>}

\* quasi-identifier lists a frame of BaseColumns cannot be grouped by: the
\* empty list, and the column state of main(), which the frame lacks
InvalidQuasiIdentifierChoices == {<<>>, <<"state">>}

Methods == {"suppress", "generalize", "mask"}

\* the frequency distributions a caller passes to the distance: Counters
\* over the values of the sensitive column, a key may have the count 0
Counters == UNION {[keys -> 0..MaxCount] : keys \in SUBSET Diagnoses}

\* the sensitive column a caller audits
SensitiveAttributes == {"diagnosis"}

\* the lists of sensitive columns a caller passes to the audit: none, one,
\* and one named twice
SensitiveAttributeLists ==
  {<<>>, <<"diagnosis">>, <<"diagnosis", "diagnosis">>}

\* the value of a call that returns nothing (or raised)
NoneValue == [type |-> "None"]

\* no call made yet
NoCall == [name |-> "none"]

\* the callers that share one engine
Callers == {"caller1", "caller2"}

\* no caller is inside track_privacy_budget
NoCalls == [c \in Callers |-> [pc |-> "idle"]]

----------------------------------------------------------------------------
(* Arithmetic helpers *)

Max2(a, b) == IF a >= b THEN a ELSE b

\* abs()
Abs(x) == IF x >= 0 THEN x ELSE -x

RECURSIVE GCD(_, _)
GCD(a, b) == IF b = 0 THEN a ELSE GCD(b, a % b)

\* the float n / d for n >= 0 and d > 0, as an exact fraction in lowest terms
Fraction(n, d) == [num |-> n \div GCD(n, d), den |-> d \div GCD(n, d)]

----------------------------------------------------------------------------
(* The privacy budget ledger *)

\* self.privacy_budget = {"epsilon": 0, "queries": []}
EmptyBudget == [epsilon |-> 0, queries |-> <<>>]

\* track_privacy_budget with the total overwritten (=) instead of added to (+=)
track_privacy_budget_overwrite(pb, query_name, epsilon, timestamp) ==
  [epsilon |-> epsilon,
   queries |-> Append(pb.queries,
                      [query |-> query_name,
                       epsilon |-> epsilon,
                       timestamp |-> timestamp,
                       cumulative_epsilon |-> epsilon])]

\* the body of track_privacy_budget: += on the total, then the append
track_privacy_budget(pb, query_name, epsilon, timestamp) ==
  LET total == pb.epsilon + epsilon
  IN  [epsilon |-> total,
       queries |-> Append(pb.queries,
                          [query |-> query_name,
                           epsilon |-> epsilon,
                           timestamp |-> timestamp,
                           cumulative_epsilon |-> total])]

\* the dictionary get_privacy_budget_report returns; its "queries" value is
\* the ledger's own list object, not a copy: it is read through QueriesOf
get_privacy_budget_report(pb) ==
  [type |-> "dict",
   total_epsilon_used |-> pb.epsilon,
   total_queries |-> Len(pb.queries),
   queries |-> "privacy_budget.queries",
   budget_remaining |-> Max2(0, RecommendedMax - pb.epsilon),
   recommended_max |-> RecommendedMax]

\* the list a report's "queries" refers to
QueriesOf(report) == privacy_budget.queries

----------------------------------------------------------------------------
(* DataFrames: a set of column names, the index labels and the rows, each  *)
(* row a function from column name to value                                *)

DataFrame(columns, index, rows) ==
  [type |-> "DataFrame", columns |-> columns, index |-> index, rows |-> rows]

\* the frames a caller can load: RangeIndex 0..n-1, the columns of the query
DataFrames ==
  UNION {{DataFrame(BaseColumns, [i \in 1..n |-> i - 1], rows) :
            rows \in [1..n -> Rows]} : n \in 0..MaxRecords}

\* len(df)
len(d) == Len(d.rows)

\* df[c] = values
assign_column(d, c, values) ==
  DataFrame(d.columns \cup {c}, d.index,
            [i \in 1..len(d) |->
               [x \in (DOMAIN d.rows[i]) \cup {c} |->
                  IF x = c THEN values[i] ELSE d.rows[i][x]]])

\* df.drop(c, axis=1): a new frame without column c
drop(d, c) ==
  DataFrame(d.columns \ {c}, d.index,
            [i \in 1..len(d) |->
               [x \in (DOMAIN d.rows[i]) \ {c} |-> d.rows[i][x]]])

RECURSIVE Positions(_, _)
\* the positions 1..n that are in keep, in increasing order
Positions(n, keep) ==
  IF n = 0 THEN <<>>
  ELSE IF n \in keep THEN Append(Positions(n - 1, keep), n)
       ELSE Positions(n - 1, keep)

\* df[mask].copy(): a new frame of the rows at the positions in keep, with
\* their index labels, in their order
boolean_mask(d, keep) ==
  LET p == Positions(len(d), keep)
  IN  DataFrame(d.columns,
                [i \in 1..Len(p) |-> d.index[p[i]]],
                [i \in 1..Len(p) |-> d.rows[p[i]]])

\* comparisons of a float column with self.k: False on NaN
ge(x, kv) == x # NaN /\ x >= kv
lt(x, kv) == x # NaN /\ x < kv

----------------------------------------------------------------------------
(* Grouping *)

\* the group key of a row: the tuple of its quasi-identifier values
KeyOf(row, qi) == [i \in 1..Len(qi) |-> row[qi[i]]]

\* pandas treats None as NA
isna(row, qi) == \E i \in 1..Len(qi) : row[qi[i]] = None

\* the exception df.groupby(quasi_identifiers) raises: ValueError ("No group
\* keys passed!") for an empty list, KeyError for a name that is no column
groupby_error(d, qi) ==
  IF Len(qi) = 0 THEN "ValueError"
  ELSE IF \E i \in 1..Len(qi) : qi[i] \notin d.columns THEN "KeyError"
  ELSE "none"

\* df.groupby(quasi_identifiers), with pandas' default dropna=True: the
\* groups, as a function from group key to the positions of its rows; a row
\* with None in a key column is in no group
groupby(d, qi) ==
  LET grouped_rows == {i \in 1..len(d) : ~isna(d.rows[i], qi)}
      keys == {KeyOf(d.rows[i], qi) : i \in grouped_rows}
  IN  [key \in keys |-> {i \in grouped_rows : KeyOf(d.rows[i], qi) = key}]

\* the counts of a grouping that only joins neighbouring rows: per group, the
\* length of the run of rows that starts at its first row
group_counts_consecutive(d, qi) ==
  LET g == groupby(d, qi)
  IN  [key \in DOMAIN g |->
         LET first == CHOOSE i \in g[key] : \A j \in g[key] : i <= j
         IN  Cardinality({i \in g[key] : \A j \in first..i : j \in g[key]})]

\* .size().reset_index(name='count'): the count of every group
group_counts(d, qi) ==
  LET g == groupby(d, qi)
  IN  [key \in DOMAIN g |-> Cardinality(g[key])]

RECURSIVE SumOver(_, _)
\* the sum of f over the set S
SumOver(f, S) ==
  IF S = {} THEN 0
  ELSE LET x == CHOOSE y \in S : TRUE
       IN  f[x] + SumOver(f, S \ {x})

\* Series.min() and Series.max(): NaN on an empty series
series_min(f) ==
  IF DOMAIN f = {} THEN NaN
  ELSE f[CHOOSE x \in DOMAIN f : \A y \in DOMAIN f : f[x] <= f[y]]

series_max(f) ==
  IF DOMAIN f = {} THEN NaN
  ELSE f[CHOOSE x \in DOMAIN f : \A y \in DOMAIN f : f[x] >= f[y]]

\* Series.mean(): sum / count, NaN when count is 0
series_mean(f) == [sum |-> SumOver(f, DOMAIN f), count |-> Cardinality(DOMAIN f)]

----------------------------------------------------------------------------
(* check_k_anonymity *)

check_k_anonymity(d, qi, kv) ==
  LET grouped == group_counts(d, qi)
      violations == {key \in DOMAIN grouped : grouped[key] < kv}
  IN  [type |-> "dict",
       satisfies_k_anonymity |-> Cardinality(violations) = 0,
       k_value |-> kv,
       total_groups |-> Cardinality(DOMAIN grouped),
       violating_groups |-> Cardinality(violations),
       smallest_group_size |-> series_min(grouped),
       largest_group_size |-> series_max(grouped),
       average_group_size |-> series_mean(grouped),
       records_at_risk |-> IF Cardinality(violations) > 0
                           THEN SumOver(grouped, violations) ELSE 0]

----------------------------------------------------------------------------
(* check_l_diversity *)

\* the distinct count with one too many
nunique_one_more(d, positions, attr) ==
  Cardinality({d.rows[i][attr] : i \in positions} \ {None}) + 1

\* Series.nunique() of column attr over the rows at the given positions:
\* the number of distinct values, None not counted
nunique(d, positions, attr) ==
  Cardinality({d.rows[i][attr] : i \in positions} \ {None})

check_l_diversity(d, qi, attr, lv) ==
  LET g == groupby(d, qi)
      unique_count == [key \in DOMAIN g |-> nunique(d, g[key], attr)]
      violations == {key \in DOMAIN g : unique_count[key] < lv}
  IN  [type |-> "dict",
       satisfies_l_diversity |-> Cardinality(violations) = 0,
       l_value |-> lv,
       sensitive_attribute |-> attr,
       total_groups |-> Cardinality(DOMAIN g),
       violating_groups |-> Cardinality(violations),
       min_diversity |-> series_min(unique_count),
       max_diversity |-> series_max(unique_count),
       avg_diversity |-> series_mean(unique_count)]

----------------------------------------------------------------------------
(* calculate_earth_movers_distance *)

\* Counter.get(key, 0)
counter_get(dist, key) == IF key \in DOMAIN dist THEN dist[key] ELSE 0

\* sum(dist.values())
counter_total(dist) == SumOver(dist, DOMAIN dist)

\* calculate_earth_movers_distance with both frequencies divided by total1
calculate_earth_movers_distance_one_total(dist1, dist2) ==
  LET all_keys == (DOMAIN dist1) \cup (DOMAIN dist2)
      total1 == counter_total(dist1)
      total2 == counter_total(dist2)
      distance == [key \in all_keys |->
                     Abs(counter_get(dist1, key) - counter_get(dist2, key))]
  IN  IF all_keys = {}
      THEN [raised |-> "none", value |-> Fraction(0, 1)]
      ELSE IF total1 = 0 \/ total2 = 0
      THEN [raised |-> "ZeroDivisionError", value |-> NoneValue]
      ELSE [raised |-> "none",
            value |-> Fraction(SumOver(distance, all_keys), 2 * total1)]

\* calculate_earth_movers_distance without the final division by 2
calculate_earth_movers_distance_not_halved(dist1, dist2) ==
  LET all_keys == (DOMAIN dist1) \cup (DOMAIN dist2)
      total1 == counter_total(dist1)
      total2 == counter_total(dist2)
      distance == [key \in all_keys |->
                     Abs(counter_get(dist1, key) * total2
                           - counter_get(dist2, key) * total1)]
  IN  IF all_keys = {}
      THEN [raised |-> "none", value |-> Fraction(0, 1)]
      ELSE IF total1 = 0 \/ total2 = 0
      THEN [raised |-> "ZeroDivisionError", value |-> NoneValue]
      ELSE [raised |-> "none",
            value |-> Fraction(SumOver(distance, all_keys), total1 * total2)]

\* the exception raised and the value returned.  The sum over the keys of
\* abs(c1/total1 - c2/total2), divided by 2, is the sum of
\* abs(c1*total2 - c2*total1) over 2*total1*total2.  With no key at all the
\* loop body never runs and 0 / 2 is returned; otherwise the first division
\* by a total of 0 raises ZeroDivisionError
calculate_earth_movers_distance(dist1, dist2) ==
  LET all_keys == (DOMAIN dist1) \cup (DOMAIN dist2)
      total1 == counter_total(dist1)
      total2 == counter_total(dist2)
      distance == [key \in all_keys |->
                     Abs(counter_get(dist1, key) * total2
                           - counter_get(dist2, key) * total1)]
  IN  IF all_keys = {}
      THEN [raised |-> "none", value |-> Fraction(0, 1)]
      ELSE IF total1 = 0 \/ total2 = 0
      THEN [raised |-> "ZeroDivisionError", value |-> NoneValue]
      ELSE [raised |-> "none",
            value |-> Fraction(SumOver(distance, all_keys),
                               2 * total1 * total2)]

----------------------------------------------------------------------------
(* check_t_closeness *)

\* Counter(series) of column attr over the rows at the given positions
Counter(d, positions, attr) ==
  [value \in {d.rows[i][attr] : i \in positions} |->
     Cardinality({i \in positions : d.rows[i][attr] = value})]

str_rank(x) == CHOOSE i \in 1..Len(StringOrder) : StringOrder[i] = x

\* a < b on group keys: tuples of strings compare lexicographically
key_lt(a, b) ==
  \E i \in 1..Len(a) :
    /\ \A j \in 1..(i - 1) : a[j] = b[j]
    /\ str_rank(a[i]) < str_rank(b[i])

RECURSIVE sorted_keys(_)
\* iterating df.groupby(quasi_identifiers), with pandas' default sort=True,
\* visits the groups in ascending order of their keys
sorted_keys(keys) ==
  IF keys = {} THEN <<>>
  ELSE LET first == CHOOSE x \in keys : \A y \in keys \ {x} : key_lt(x, y)
       IN  <<first>> \o sorted_keys(keys \ {first})

\* a > b and a + b on fractions
fraction_gt(a, b) == a.num * b.den > b.num * a.den
fraction_add(a, b) == Fraction(a.num * b.den + b.num * a.den, a.den * b.den)

RECURSIVE fraction_sum(_, _)
\* the sum of the fractions s[1..n]
fraction_sum(s, n) ==
  IF n = 0 THEN Fraction(0, 1) ELSE fraction_add(fraction_sum(s, n - 1), s[n])

\* max(distances) if distances else 0
max_distance(distances) ==
  IF Len(distances) = 0 THEN Fraction(0, 1)
  ELSE distances[CHOOSE i \in 1..Len(distances) :
                   \A j \in 1..Len(distances) :
                     ~fraction_gt(distances[j], distances[i])]

\* np.mean(distances) if distances else 0
avg_distance(distances) ==
  IF Len(distances) = 0 THEN Fraction(0, 1)
  ELSE LET total == fraction_sum(distances, Len(distances))
       IN  Fraction(total.num, total.den * Len(distances))

\* distance > self.t, t in units of 0.05
exceeds(distance, tv) == distance.num * UnitsPerOne > tv * distance.den

check_t_closeness(d, qi, attr, tv) ==
  LET overall_dist == Counter(d, 1..len(d), attr)
      g == groupby(d, qi)
      keys == sorted_keys(DOMAIN g)
      distances ==
        [i \in 1..Len(keys) |->
           calculate_earth_movers_distance(Counter(d, g[keys[i]], attr),
                                           overall_dist).value]
      p == Positions(Len(keys),
                     {i \in 1..Len(keys) : exceeds(distances[i], tv)})
      violations ==
        [j \in 1..Len(p) |-> [group |-> keys[p[j]],
                              distance |-> distances[p[j]],
                              size |-> Cardinality(g[keys[p[j]]])]]
  IN  [type |-> "dict",
       satisfies_t_closeness |-> Len(violations) = 0,
       t_value |-> tv,
       sensitive_attribute |-> attr,
       total_groups |-> Len(distances),
       violating_groups |-> Len(violations),
       max_distance |-> max_distance(distances),
       avg_distance |-> avg_distance(distances),
       violations |-> SubSeq(violations, 1,
                             IF Len(violations) < ViolationsListed
                             THEN Len(violations) ELSE ViolationsListed)]

----------------------------------------------------------------------------
(* comprehensive_privacy_audit *)

\* 100 if passed else 0
score(passed) == IF passed THEN PassScore ELSE 0

RECURSIVE sum(_, _)
\* the sum of the numbers s[1..n]
sum(s, n) == IF n = 0 THEN 0 ELSE sum(s, n - 1) + s[n]

\* the audit with every check run at the default l instead of self.l
comprehensive_privacy_audit_default_l(d, qi, sensitive_attributes, kv, lv, tv, timestamp) ==
  LET attrs == {sensitive_attributes[i] : i \in 1..Len(sensitive_attributes)}
      k_anonymity == check_k_anonymity(d, qi, kv)
      l_diversity == [attr \in attrs |-> check_l_diversity(d, qi, attr, DefaultL)]
      t_closeness == [attr \in attrs |-> check_t_closeness(d, qi, attr, tv)]
      scores ==
        [j \in 1..(1 + 2 * Len(sensitive_attributes)) |->
           IF j = 1 THEN score(k_anonymity.satisfies_k_anonymity)
           ELSE IF j % 2 = 0
           THEN score(l_diversity[sensitive_attributes[j \div 2]].satisfies_l_diversity)
           ELSE score(t_closeness[sensitive_attributes[j \div 2]].satisfies_t_closeness)]
  IN  [type |-> "dict",
       timestamp |-> timestamp,
       record_count |-> len(d),
       k_anonymity |-> k_anonymity,
       l_diversity |-> l_diversity,
       t_closeness |-> t_closeness,
       overall_privacy_score |-> Fraction(sum(scores, Len(scores)), Len(scores))]

\* the audit with the score taken from the first attribute's checks only
comprehensive_privacy_audit_first_attribute(d, qi, sensitive_attributes, kv, lv, tv, timestamp) ==
  LET attrs == {sensitive_attributes[i] : i \in 1..Len(sensitive_attributes)}
      k_anonymity == check_k_anonymity(d, qi, kv)
      l_diversity == [attr \in attrs |-> check_l_diversity(d, qi, attr, lv)]
      t_closeness == [attr \in attrs |-> check_t_closeness(d, qi, attr, tv)]
      scores == <<score(k_anonymity.satisfies_k_anonymity)>>
  IN  [type |-> "dict",
       timestamp |-> timestamp,
       record_count |-> len(d),
       k_anonymity |-> k_anonymity,
       l_diversity |-> l_diversity,
       t_closeness |-> t_closeness,
       overall_privacy_score |-> Fraction(sum(scores, Len(scores)), Len(scores))]

\* the report: the dictionaries l_diversity and t_closeness have one entry
\* per attribute name, the list scores one l and one t score per entry of
\* sensitive_attributes after the k score; np.mean(scores) as a fraction
comprehensive_privacy_audit(d, qi, sensitive_attributes, kv, lv, tv, timestamp) ==
  LET attrs == {sensitive_attributes[i] : i \in 1..Len(sensitive_attributes)}
      k_anonymity == check_k_anonymity(d, qi, kv)
      l_diversity == [attr \in attrs |-> check_l_diversity(d, qi, attr, lv)]
      t_closeness == [attr \in attrs |-> check_t_closeness(d, qi, attr, tv)]
      scores ==
        [j \in 1..(1 + 2 * Len(sensitive_attributes)) |->
           IF j = 1 THEN score(k_anonymity.satisfies_k_anonymity)
           ELSE IF j % 2 = 0
           THEN score(l_diversity[sensitive_attributes[j \div 2]].satisfies_l_diversity)
           ELSE score(t_closeness[sensitive_attributes[j \div 2]].satisfies_t_closeness)]
  IN  [type |-> "dict",
       timestamp |-> timestamp,
       record_count |-> len(d),
       k_anonymity |-> k_anonymity,
       l_diversity |-> l_diversity,
       t_closeness |-> t_closeness,
       overall_privacy_score |-> Fraction(sum(scores, Len(scores)), Len(scores))]

----------------------------------------------------------------------------
(* enforce_k_anonymity *)

\* df.groupby(quasi_identifiers)[quasi_identifiers[0]].transform('count'):
\* per row, the number of non-null values of the first key column in the
\* row's group; NaN for a row that is in no group
transform_count(d, qi) ==
  LET g == groupby(d, qi)
  IN  [i \in 1..len(d) |->
         IF isna(d.rows[i], qi) THEN NaN
         ELSE Cardinality({j \in g[KeyOf(d.rows[i], qi)] :
                             d.rows[j][qi[1]] # None})]

\* df[df['_group_size'] >= self.k].copy()
suppress_small_groups(d, kv) ==
  boolean_mask(d, {i \in 1..len(d) : ge(d.rows[i]["_group_size"], kv)})

\* the broader band a small group's age_group is replaced by
generalize_age(age) ==
  IF age \in {"18-30", "31-45", "46-60"} THEN "Adult (18-60)"
  ELSE "Senior (60+)"

\* df.copy() with the age_group of every row of df[df['_group_size'] <
\* self.k] replaced; the index labels of a frame are unique, so .loc[idx]
\* is the row at the position of idx
generalize_small_groups(d, kv) ==
  DataFrame(d.columns, d.index,
            [i \in 1..len(d) |->
               IF lt(d.rows[i]["_group_size"], kv)
               THEN [d.rows[i] EXCEPT !["age_group"] = generalize_age(@)]
               ELSE d.rows[i]])

\* the whole method: the caller's frame after the call, the exception raised
\* and the value returned
enforce_k_anonymity(d, qi, method, kv) ==
  LET d1 == assign_column(d, "_group_size", transform_count(d, qi))
      returns(df_anonymous) ==
        [df |-> d1, raised |-> "none", ret |-> drop(df_anonymous, "_group_size")]
      raises(e) == [df |-> d1, raised |-> e, ret |-> NoneValue]
  IN  CASE groupby_error(d, qi) # "none" ->
             \* raised by the right-hand side of line 93, before the assignment
             [df |-> d, raised |-> groupby_error(d, qi), ret |-> NoneValue]
        [] method = "suppress" ->
             \* suppressed/len(df) in the log message
             IF len(d1) = 0 THEN raises("ZeroDivisionError")
             ELSE returns(suppress_small_groups(d1, kv))
        [] method = "generalize" ->
             IF \E i \in 1..Len(qi) : qi[i] = "age_group"
             THEN returns(generalize_small_groups(d1, kv))
             ELSE returns(suppress_small_groups(d1, kv))
        [] OTHER ->
             \* df_anonymous was never assigned
             raises("UnboundLocalError")

----------------------------------------------------------------------------
(* The state machine *)

\* PrivacyEngine(k) and a frame loaded by the caller
Init ==
  /\ k \in 1..MaxK
  /\ l \in 1..MaxL
  /\ t \in TChoices
  /\ privacy_budget = EmptyBudget
  /\ df \in DataFrames
  /\ op = NoCall
  /\ raised = "none"
  /\ ret = NoneValue
  /\ now = 0
  /\ budget_report = NoneValue
  /\ calls = NoCalls

TrackPrivacyBudget ==
  /\ Len(privacy_budget.queries) < MaxQueries
  /\ \E query_name \in QueryNames, epsilon \in EpsilonChoices :
       /\ privacy_budget' =
            track_privacy_budget(privacy_budget, query_name, epsilon, now)
       /\ op' = [name |-> "track_privacy_budget", query_name |-> query_name,
                 epsilon |-> epsilon]
  /\ now' = now + 1
  /\ raised' = "none"
  /\ ret' = NoneValue
  /\ UNCHANGED <<k, l, t, df, budget_report, calls>>

(* track_privacy_budget called by several callers at once.  The method    *)
(* takes no lock, and Python may switch threads between the load of        *)
(* privacy_budget["epsilon"], the store of the incremented total (+= is a  *)
(* load, an add and a store), the construction of the entry, which reads   *)
(* the total again, and the append.                                        *)

\* the number of calls begun: the recorded ones and the ones in progress
CallsBegun ==
  Len(privacy_budget.queries) + Cardinality({c \in Callers : calls[c].pc # "idle"})

\* the load and the add of self.privacy_budget["epsilon"] += epsilon
TrackLoad ==
  /\ CallsBegun < MaxQueries
  /\ \E c \in Callers, query_name \in QueryNames, epsilon \in EpsilonChoices :
       /\ calls[c].pc = "idle"
       /\ calls' = [calls EXCEPT ![c] =
                      [pc |-> "store", query_name |-> query_name,
                       epsilon |-> epsilon,
                       total |-> privacy_budget.epsilon + epsilon]]
       /\ op' = [name |-> "track_privacy_budget", query_name |-> query_name,
                 epsilon |-> epsilon]
  /\ UNCHANGED <<k, l, t, privacy_budget, df, raised, ret, now, budget_report>>

\* the store and the append done as one step
TrackStore_with_append ==
  /\ \E c \in Callers :
       /\ calls[c].pc = "store"
       /\ privacy_budget' =
            [epsilon |-> calls[c].total,
             queries |-> Append(privacy_budget.queries,
                                [query |-> calls[c].query_name,
                                 epsilon |-> calls[c].epsilon,
                                 timestamp |-> now,
                                 cumulative_epsilon |-> calls[c].total])]
       /\ calls' = [calls EXCEPT ![c] = [pc |-> "idle"]]
  /\ now' = now + 1
  /\ UNCHANGED <<k, l, t, df, op, raised, ret, budget_report>>

\* the store of self.privacy_budget["epsilon"] += epsilon
TrackStore ==
  /\ \E c \in Callers :
       /\ calls[c].pc = "store"
       /\ privacy_budget' = [privacy_budget EXCEPT !.epsilon = calls[c].total]
       /\ calls' = [calls EXCEPT ![c] =
                      [pc |-> "entry", query_name |-> calls[c].query_name,
                       epsilon |-> calls[c].epsilon]]
  /\ UNCHANGED <<k, l, t, df, op, raised, ret, now, budget_report>>

\* the dictionary literal of lines 301-304, which reads the clock and the
\* total as it is now
TrackEntry ==
  /\ \E c \in Callers :
       /\ calls[c].pc = "entry"
       /\ calls' = [calls EXCEPT ![c] =
                      [pc |-> "append",
                       entry |-> [query |-> calls[c].query_name,
                                  epsilon |-> calls[c].epsilon,
                                  timestamp |-> now,
                                  cumulative_epsilon |-> privacy_budget.epsilon]]]
  /\ now' = now + 1
  /\ UNCHANGED <<k, l, t, privacy_budget, df, op, raised, ret, budget_report>>

\* self.privacy_budget["queries"].append(...), and the return
TrackAppend ==
  /\ \E c \in Callers :
       /\ calls[c].pc = "append"
       /\ privacy_budget' =
            [privacy_budget EXCEPT
               !.queries = Append(privacy_budget.queries, calls[c].entry)]
       /\ calls' = [calls EXCEPT ![c] = [pc |-> "idle"]]
  /\ UNCHANGED <<k, l, t, df, op, raised, ret, now, budget_report>>

\* budget_report = engine.get_privacy_budget_report()
GetPrivacyBudgetReport ==
  /\ ret' = get_privacy_budget_report(privacy_budget)
  /\ budget_report' = ret'
  /\ op' = [name |-> "get_privacy_budget_report"]
  /\ raised' = "none"
  /\ UNCHANGED <<k, l, t, privacy_budget, df, now, calls>>

CheckKAnonymity ==
  /\ \E qi \in QuasiIdentifierChoices \cup InvalidQuasiIdentifierChoices :
       /\ raised' = groupby_error(df, qi)
       /\ ret' = IF groupby_error(df, qi) = "none"
                 THEN check_k_anonymity(df, qi, k) ELSE NoneValue
       /\ op' = [name |-> "check_k_anonymity", df |-> df,
                 quasi_identifiers |-> qi]
  /\ UNCHANGED <<k, l, t, privacy_budget, df, now, budget_report, calls>>

EnforceKAnonymity ==
  /\ \E qi \in QuasiIdentifierChoices \cup InvalidQuasiIdentifierChoices,
        method \in Methods :
       LET r == enforce_k_anonymity(df, qi, method, k)
       IN  /\ df' = r.df
           /\ raised' = r.raised
           /\ ret' = r.ret
           /\ op' = [name |-> "enforce_k_anonymity", df |-> df,
                     quasi_identifiers |-> qi, method |-> method]
  /\ UNCHANGED <<k, l, t, privacy_budget, now, budget_report, calls>>

CheckLDiversity ==
  /\ \E qi \in QuasiIdentifierChoices \cup InvalidQuasiIdentifierChoices,
        attr \in SensitiveAttributes :
       /\ raised' = groupby_error(df, qi)
       /\ ret' = IF groupby_error(df, qi) = "none"
                 THEN check_l_diversity(df, qi, attr, l) ELSE NoneValue
       /\ op' = [name |-> "check_l_diversity", df |-> df,
                 quasi_identifiers |-> qi, sensitive_attribute |-> attr]
  /\ UNCHANGED <<k, l, t, privacy_budget, df, now, budget_report, calls>>

CheckTCloseness ==
  /\ \E qi \in QuasiIdentifierChoices \cup InvalidQuasiIdentifierChoices,
        attr \in SensitiveAttributes :
       /\ raised' = groupby_error(df, qi)
       /\ ret' = IF groupby_error(df, qi) = "none"
                 THEN check_t_closeness(df, qi, attr, t) ELSE NoneValue
       /\ op' = [name |-> "check_t_closeness", df |-> df,
                 quasi_identifiers |-> qi, sensitive_attribute |-> attr]
  /\ UNCHANGED <<k, l, t, privacy_budget, df, now, budget_report, calls>>

\* the clock is read for the report's timestamp; the first check_k_anonymity
\* call raises what groupby raises
ComprehensivePrivacyAudit ==
  /\ \E qi \in QuasiIdentifierChoices \cup InvalidQuasiIdentifierChoices,
        sensitive_attributes \in SensitiveAttributeLists :
       /\ raised' = groupby_error(df, qi)
       /\ ret' = IF groupby_error(df, qi) = "none"
                 THEN comprehensive_privacy_audit(df, qi, sensitive_attributes,
                                                  k, l, t, now)
                 ELSE NoneValue
       /\ op' = [name |-> "comprehensive_privacy_audit", df |-> df,
                 quasi_identifiers |-> qi,
                 sensitive_attributes |-> sensitive_attributes]
  /\ UNCHANGED <<k, l, t, privacy_budget, df, now, budget_report, calls>>

CalculateEarthMoversDistance ==
  /\ \E dist1 \in Counters, dist2 \in Counters :
       LET r == calculate_earth_movers_distance(dist1, dist2)
       IN  /\ raised' = r.raised
           /\ ret' = IF r.raised = "none"
                     THEN [type |-> "float", value |-> r.value]
                     ELSE NoneValue
           /\ op' = [name |-> "calculate_earth_movers_distance",
                     dist1 |-> dist1, dist2 |-> dist2]
  /\ UNCHANGED <<k, l, t, privacy_budget, df, now, budget_report, calls>>

\* the engine of main(), k = 5, with no frame loaded: the ledger alone
InitBudget ==
  /\ k = DefaultK
  /\ l = DefaultL
  /\ t = DefaultT
  /\ privacy_budget = EmptyBudget
  /\ df = DataFrame(BaseColumns, <<>>, <<>>)
  /\ op = NoCall
  /\ raised = "none"
  /\ ret = NoneValue
  /\ now = 0
  /\ budget_report = NoneValue
  /\ calls = NoCalls

NextBudget == TrackPrivacyBudget \/ GetPrivacyBudgetReport

SpecBudget == InitBudget /\ [][NextBudget]_vars

\* PrivacyEngine(k, l, t) with any arguments, and its ledger
InitEngine ==
  /\ k \in ConstructorK
  /\ l \in ConstructorL
  /\ t \in ConstructorT
  /\ privacy_budget = EmptyBudget
  /\ df = DataFrame(BaseColumns, <<>>, <<>>)
  /\ op = NoCall
  /\ raised = "none"
  /\ ret = NoneValue
  /\ now = 0
  /\ budget_report = NoneValue
  /\ calls = NoCalls

SpecEngine == InitEngine /\ [][NextBudget]_vars

\* engines with any k and l and the default t
InitAudit == Init /\ t = DefaultT

\* main() audits the frame it loaded once: the first call on the engine
NextAudit == op = NoCall /\ ComprehensivePrivacyAudit

\* one call of the audit or of a checker on a frame just loaded: none of
\* them changes what a later call reads
NextCheckers ==
  /\ op = NoCall
  /\ \/ ComprehensivePrivacyAudit
     \/ CheckKAnonymity
     \/ CheckLDiversity
     \/ CheckTCloseness

SpecCheckers == InitAudit /\ [][NextCheckers]_vars

\* one call of one of the three checkers on a frame just loaded
NextOrder ==
  /\ op = NoCall
  /\ \/ CheckKAnonymity
     \/ CheckLDiversity
     \/ CheckTCloseness

SpecOrder == InitAudit /\ [][NextOrder]_vars

SpecAudit == InitAudit /\ [][NextAudit]_vars

NextConcurrent == TrackLoad \/ TrackStore \/ TrackEntry \/ TrackAppend

\* the engine of main() shared by the callers
SpecConcurrent == InitBudget /\ [][NextConcurrent]_vars

NextData == CheckKAnonymity \/ EnforceKAnonymity

\* engines with any k and the default l and t: the k-anonymity operations
InitData == Init /\ l = DefaultL /\ t = DefaultT

SpecData == InitData /\ [][NextData]_vars

\* engines with any l and the default k and t: the l-diversity checker
InitDiversity ==
  /\ k = DefaultK
  /\ l \in 1..MaxL
  /\ t = DefaultT
  /\ privacy_budget = EmptyBudget
  /\ df \in DataFrames
  /\ op = NoCall
  /\ raised = "none"
  /\ ret = NoneValue
  /\ now = 0
  /\ budget_report = NoneValue
  /\ calls = NoCalls

NextDiversity == CheckLDiversity

SpecDiversity == InitDiversity /\ [][NextDiversity]_vars

\* engines with any t and the default k and l: the t-closeness checker
InitCloseness ==
  /\ k = DefaultK
  /\ l = DefaultL
  /\ t \in TChoices
  /\ privacy_budget = EmptyBudget
  /\ df \in DataFrames
  /\ op = NoCall
  /\ raised = "none"
  /\ ret = NoneValue
  /\ now = 0
  /\ budget_report = NoneValue
  /\ calls = NoCalls

NextCloseness == CheckTCloseness

SpecCloseness == InitCloseness /\ [][NextCloseness]_vars

NextDistance == CalculateEarthMoversDistance

\* the distance, called on the engine of main()
SpecDistance == InitBudget /\ [][NextDistance]_vars

\* the whole engine; the claims are checked under SpecBudget and SpecData,
\* which split its state space between the ledger and the dataset
Next ==
  \/ TrackPrivacyBudget
  \/ TrackLoad
  \/ TrackStore
  \/ TrackEntry
  \/ TrackAppend
  \/ GetPrivacyBudgetReport
  \/ CheckKAnonymity
  \/ EnforceKAnonymity
  \/ CheckLDiversity
  \/ CheckTCloseness
  \/ ComprehensivePrivacyAudit
  \/ CalculateEarthMoversDistance

Spec == Init /\ [][Next]_vars

----------------------------------------------------------------------------
(* The claims about the privacy budget ledger *)

RECURSIVE SumSeq(_, _)
\* sum of the field "epsilon" of the entries s[1..n]
SumSeq(s, n) == IF n = 0 THEN 0 ELSE SumSeq(s, n - 1) + s[n].epsilon

IsPrefix(s, u) == Len(s) <= Len(u) /\ \A i \in 1..Len(s) : s[i] = u[i]

\* C1: when every recorded epsilon is non-negative, the cumulative epsilon is
\* the sum of the recorded entry costs, every entry's cumulative_epsilon is
\* the sum of the costs up to and including it, and these running totals
\* start at 0 or above and never decrease from one call to the next
C1_CumulativeIsSum ==
  LET q == privacy_budget.queries
  IN  (\A i \in 1..Len(q) : q[i].epsilon >= 0) =>
        /\ privacy_budget.epsilon = SumSeq(q, Len(q))
        /\ privacy_budget.epsilon >= 0
        /\ \A i \in 1..Len(q) : q[i].cumulative_epsilon = SumSeq(q, i)
        /\ \A i \in 1..Len(q) :
             q[i].cumulative_epsilon >= (IF i = 1 THEN 0
                                         ELSE q[i - 1].cumulative_epsilon)

\* two calls with positive epsilons 0.1 and 0.15 have been recorded
C1_Witness ==
  LET q == privacy_budget.queries
  IN  /\ Len(q) >= 2
      /\ q[1].epsilon = 2
      /\ q[2].epsilon = 3
      /\ privacy_budget.epsilon >= 5

\* C2: a track_privacy_budget call with a negative epsilon raises
\* InvalidBudgetError and leaves the cumulative epsilon and the entries as
\* they were before the call
C2_NegativeEpsilonRejected ==
  [][(op'.name = "track_privacy_budget" /\ op'.epsilon < 0) =>
       (raised' = "InvalidBudgetError" /\ privacy_budget' = privacy_budget)]_vars

\* C3: every track_privacy_budget call appends exactly one entry, whose
\* cumulative_epsilon is the previous total plus the call's epsilon, and no
\* call of any operation removes, reorders or changes an entry or lowers the
\* cumulative total
C3_AppendOnly ==
  [][/\ IsPrefix(privacy_budget.queries, privacy_budget'.queries)
     /\ privacy_budget'.epsilon >= privacy_budget.epsilon
     /\ op'.name = "track_privacy_budget" =>
          /\ Len(privacy_budget'.queries) = Len(privacy_budget.queries) + 1
          /\ privacy_budget'.queries[Len(privacy_budget'.queries)].cumulative_epsilon
               = privacy_budget.epsilon + op'.epsilon
     /\ op'.name # "track_privacy_budget" =>
          privacy_budget' = privacy_budget]_vars

\* ceilings a caller may want to configure, in units of 0.05: 1.0 and 2.0
RecommendedMaxChoices == {20, 40}

\* C4: the report has total_epsilon_used equal to the cumulative epsilon,
\* total_queries equal to the number of entries, and, whatever ceiling
\* recommended_max the caller configured, budget_remaining =
\* max(0, recommended_max - total_epsilon_used), never negative
C4_ReportUsesConfiguredMax ==
  op.name = "get_privacy_budget_report" =>
    /\ ret.total_epsilon_used = privacy_budget.epsilon
    /\ ret.total_queries = Len(QueriesOf(ret))
    /\ ret.budget_remaining >= 0
    /\ \A recommended_max \in RecommendedMaxChoices :
         ret.budget_remaining = Max2(0, recommended_max - ret.total_epsilon_used)

----------------------------------------------------------------------------
(* The claims about the k-anonymity checker and enforcer *)

\* the equivalence class of the record at position i: the records with the
\* same value, None included, in every quasi-identifier column
ClassOf(d, qi, i) ==
  {j \in 1..len(d) : KeyOf(d.rows[j], qi) = KeyOf(d.rows[i], qi)}

EquivalenceClasses(d, qi) == {ClassOf(d, qi, i) : i \in 1..len(d)}

\* a record without the helper column
BaseRow(row) == [c \in (DOMAIN row) \ {"_group_size"} |-> row[c]]

HasAgeGroup(qi) == \E i \in 1..Len(qi) : qi[i] = "age_group"

\* the call recorded in op names a non-empty list of columns of its dataset
HasValidQuasiIdentifiers ==
  /\ Len(op.quasi_identifiers) > 0
  /\ \A i \in 1..Len(op.quasi_identifiers) :
       op.quasi_identifiers[i] \in op.df.columns

\* C5: check_k_anonymity reports satisfies_k_anonymity exactly when every
\* equivalence class of the dataset has at least k records, violating_groups
\* is the number of smaller classes and records_at_risk the number of
\* records in them
C5_KAnonymityResult ==
  (op.name = "check_k_anonymity" /\ HasValidQuasiIdentifiers) =>
    LET violating ==
          {c \in EquivalenceClasses(op.df, op.quasi_identifiers) :
             Cardinality(c) < k}
    IN  /\ ret.satisfies_k_anonymity = (violating = {})
        /\ ret.violating_groups = Cardinality(violating)
        /\ ret.records_at_risk = Cardinality(UNION violating)

\* C6: the groups a checker forms partition the dataset: their sizes add up
\* to len(D), each has at least one record, and every record, also one with
\* None in a quasi-identifier column, is in the group of the records that
\* share its quasi-identifier values
C6_ClassesPartition ==
  (op.name = "check_k_anonymity" /\ HasValidQuasiIdentifiers) =>
    LET g == groupby(op.df, op.quasi_identifiers)
        counts == group_counts(op.df, op.quasi_identifiers)
    IN  /\ SumOver(counts, DOMAIN counts) = len(op.df)
        /\ \A key \in DOMAIN counts : counts[key] >= 1
        /\ \A i \in 1..len(op.df) :
             \E key \in DOMAIN g :
               g[key] = ClassOf(op.df, op.quasi_identifiers, i)
        /\ ret.total_groups =
             Cardinality(EquivalenceClasses(op.df, op.quasi_identifiers))

\* C7: for every dataset, the empty one included, method 'suppress' returns
\* a dataset that is no larger, holds only records whose equivalence class
\* in the input has at least k records, and passes check_k_anonymity with
\* the same quasi-identifiers and k
C7_SuppressIsKAnonymous ==
  (/\ op.name = "enforce_k_anonymity"
   /\ op.method = "suppress"
   /\ HasValidQuasiIdentifiers) =>
    /\ raised = "none"
    /\ ret.type = "DataFrame"
    /\ len(ret) <= len(op.df)
    /\ \A i \in 1..len(ret) :
         \E j \in 1..len(op.df) :
           /\ op.df.index[j] = ret.index[i]
           /\ BaseRow(op.df.rows[j]) = ret.rows[i]
           /\ Cardinality(ClassOf(op.df, op.quasi_identifiers, j)) >= k
    /\ \A i \in 1..len(ret) :
         Cardinality(ClassOf(ret, op.quasi_identifiers, i)) >= k
    /\ check_k_anonymity(ret, op.quasi_identifiers, k).satisfies_k_anonymity

\* C8: an enforce_k_anonymity call, under any method, leaves the caller's
\* dataset with the columns and the records it had before the call
C8_CallerDatasetUnchanged ==
  [][op'.name = "enforce_k_anonymity" => df' = df]_vars

\* C9: with method 'generalize' and age_group among the quasi-identifiers,
\* the returned dataset passes check_k_anonymity with the same
\* quasi-identifiers and k
C9_GeneralizeIsKAnonymous ==
  (/\ op.name = "enforce_k_anonymity"
   /\ op.method = "generalize"
   /\ HasAgeGroup(op.quasi_identifiers)) =>
    /\ raised = "none"
    /\ ret.type = "DataFrame"
    /\ check_k_anonymity(ret, op.quasi_identifiers, k).satisfies_k_anonymity

\* C10: with method 'generalize' and age_group among the quasi-identifiers,
\* the result has the input's record count, a record of a class of at least
\* k records is returned as it was, and a record of a smaller class differs
\* only in age_group: 'Adult (18-60)' for the bands 18-30, 31-45 and 46-60,
\* 'Senior (60+)' for any other band
C10_GeneralizeMapping ==
  (/\ op.name = "enforce_k_anonymity"
   /\ op.method = "generalize"
   /\ HasAgeGroup(op.quasi_identifiers)) =>
    /\ raised = "none"
    /\ ret.type = "DataFrame"
    /\ len(ret) = len(op.df)
    /\ \A i \in 1..len(ret) :
         LET row == BaseRow(op.df.rows[i])
         IN  IF Cardinality(ClassOf(op.df, op.quasi_identifiers, i)) >= k
             THEN ret.rows[i] = row
             ELSE ret.rows[i] =
                    [row EXCEPT !["age_group"] =
                       IF @ \in {"18-30", "31-45", "46-60"}
                       THEN "Adult (18-60)" ELSE "Senior (60+)"]

\* C11: when age_group is not among the quasi-identifiers, method
\* 'generalize' returns exactly the dataset that method 'suppress' returns
\* for the same dataset, quasi-identifiers and k
C11_GeneralizeDegradesToSuppress ==
  (/\ op.name = "enforce_k_anonymity"
   /\ op.method = "generalize"
   /\ HasValidQuasiIdentifiers
   /\ ~HasAgeGroup(op.quasi_identifiers)) =>
    LET suppress == enforce_k_anonymity(op.df, op.quasi_identifiers,
                                        "suppress", k)
    IN  /\ raised = "none"
        /\ suppress.raised = "none"
        /\ ret = suppress.ret

\* C12: a call with a method other than 'suppress' and 'generalize' fails
\* with UnknownMethodError and returns no dataset
C12_UnknownMethodError ==
  (/\ op.name = "enforce_k_anonymity"
   /\ op.method \notin {"suppress", "generalize"}
   /\ HasValidQuasiIdentifiers) =>
    /\ raised = "UnknownMethodError"
    /\ ret = NoneValue

\* the operations that take a dataset and a quasi-identifier list
GroupingOperations ==
  {"check_k_anonymity", "check_l_diversity", "check_t_closeness",
   "enforce_k_anonymity"}

\* C13: a checker or the enforcer called with an empty quasi-identifier list,
\* or with a quasi-identifier that is no column of the dataset, fails with
\* InvalidInputError and returns no result
C13_InvalidInputError ==
  (op.name \in GroupingOperations /\ ~HasValidQuasiIdentifiers) =>
    /\ raised = "InvalidInputError"
    /\ ret = NoneValue

\* C14: check_k_anonymity on an empty dataset returns total_groups = 0 and
\* satisfies_k_anonymity = true, its smallest and largest group size are
\* neither NaN nor 0 (they are None), and its average is not NaN
C14_EmptyDatasetResult ==
  (/\ op.name = "check_k_anonymity"
   /\ HasValidQuasiIdentifiers
   /\ len(op.df) = 0) =>
    /\ raised = "none"
    /\ ret.total_groups = 0
    /\ ret.satisfies_k_anonymity
    /\ ret.smallest_group_size \notin {NaN, 0}
    /\ ret.largest_group_size \notin {NaN, 0}
    /\ ret.average_group_size.count # 0

----------------------------------------------------------------------------
(* The claims about the l-diversity and t-closeness checkers *)

\* the number of distinct values of column attr in a set of positions
DistinctValues(d, positions, attr) ==
  Cardinality({d.rows[i][attr] : i \in positions})

\* C15: check_l_diversity reports satisfies_l_diversity exactly when every
\* equivalence class has at least l distinct values of the sensitive
\* attribute, and min_diversity is the least distinct count of a class; so
\* when every class has one distinct value the check passes for l = 1 and
\* fails for every l >= 2
C15_LDiversityResult ==
  (/\ op.name = "check_l_diversity"
   /\ HasValidQuasiIdentifiers
   /\ len(op.df) > 0) =>
    LET classes == EquivalenceClasses(op.df, op.quasi_identifiers)
        distinct(c) == DistinctValues(op.df, c, op.sensitive_attribute)
    IN  /\ raised = "none"
        /\ ret.satisfies_l_diversity = (\A c \in classes : distinct(c) >= l)
        /\ \E c \in classes : ret.min_diversity = distinct(c)
        /\ \A c \in classes : ret.min_diversity <= distinct(c)
        /\ (\A c \in classes : distinct(c) = 1) =>
             (ret.satisfies_l_diversity = (l = 1))

\* the distance of the class of the record at position i to the whole dataset
ClassDistance(d, qi, attr, i) ==
  calculate_earth_movers_distance(Counter(d, ClassOf(d, qi, i), attr),
                                  Counter(d, 1..len(d), attr)).value

\* C16: check_t_closeness counts an equivalence class as a violation exactly
\* when its distance to the dataset-wide distribution is greater than t (a
\* distance equal to t passes): violating_groups is the number of such
\* classes and satisfies_t_closeness holds exactly when there is none
C16_TClosenessStrict ==
  (op.name = "check_t_closeness" /\ HasValidQuasiIdentifiers) =>
    LET violating ==
          {c \in EquivalenceClasses(op.df, op.quasi_identifiers) :
             \E i \in c :
               exceeds(ClassDistance(op.df, op.quasi_identifiers,
                                     op.sensitive_attribute, i), t)}
    IN  /\ raised = "none"
        /\ ret.satisfies_t_closeness = (violating = {})
        /\ ret.violating_groups = Cardinality(violating)

RECURSIVE FirstSeenKeys(_, _, _)
\* the group keys of the first n records, each once, in the order in which
\* they first occur in the dataset
FirstSeenKeys(d, qi, n) ==
  IF n = 0 THEN <<>>
  ELSE LET seen == FirstSeenKeys(d, qi, n - 1)
           key == KeyOf(d.rows[n], qi)
       IN  IF \E i \in 1..Len(seen) : seen[i] = key THEN seen
           ELSE Append(seen, key)

\* C17: the violations list holds the violating groups in the order in which
\* their keys first occur in the dataset, cut after the first 10, and
\* violating_groups counts all violating groups
C17_ViolationsInFirstSeenOrder ==
  (op.name = "check_t_closeness" /\ HasValidQuasiIdentifiers) =>
    LET d == op.df
        qi == op.quasi_identifiers
        Violates(key) ==
          \E i \in 1..len(d) :
            /\ KeyOf(d.rows[i], qi) = key
            /\ exceeds(ClassDistance(d, qi, op.sensitive_attribute, i), t)
        found == SelectSeq(FirstSeenKeys(d, qi, len(d)), Violates)
    IN  /\ raised = "none"
        /\ ret.violating_groups = Len(found)
        /\ Len(ret.violations) =
             (IF Len(found) < 10 THEN Len(found) ELSE 10)
        /\ \A i \in 1..Len(ret.violations) :
             ret.violations[i].group = found[i]

\* the keys a distribution gives a positive count
Support(dist) == {key \in DOMAIN dist : dist[key] > 0}

\* C18: the distance of a distribution with a positive total to itself is
\* exactly 0, and the distance of two such distributions is the same in
\* both directions
C18_DistanceSelfZeroAndSymmetric ==
  (/\ op.name = "calculate_earth_movers_distance"
   /\ counter_total(op.dist1) > 0
   /\ counter_total(op.dist2) > 0) =>
    /\ raised = "none"
    /\ op.dist1 = op.dist2 => ret.value = Fraction(0, 1)
    /\ ret.value = calculate_earth_movers_distance(op.dist2, op.dist1).value

\* the distance of two different distributions with different positive
\* totals has been computed and is not 0
C18_Witness ==
  /\ op.name = "calculate_earth_movers_distance"
  /\ counter_total(op.dist1) > 0
  /\ counter_total(op.dist2) > counter_total(op.dist1)
  /\ raised = "none"
  /\ ret.value.num > 0

\* C19: for distributions with positive totals the distance lies in [0, 1],
\* is 0 when every value has the same relative frequency in both, and is 1
\* when no value has a positive count in both
C19_DistanceRange ==
  (/\ op.name = "calculate_earth_movers_distance"
   /\ counter_total(op.dist1) > 0
   /\ counter_total(op.dist2) > 0) =>
    /\ raised = "none"
    /\ ret.value.num >= 0
    /\ ret.value.num <= ret.value.den
    /\ (\A key \in (DOMAIN op.dist1) \cup (DOMAIN op.dist2) :
          counter_get(op.dist1, key) * counter_total(op.dist2)
            = counter_get(op.dist2, key) * counter_total(op.dist1))
         => ret.value = Fraction(0, 1)
    /\ Support(op.dist1) \cap Support(op.dist2) = {}
         => ret.value = Fraction(1, 1)

\* the distance of two distributions with disjoint supports and different
\* totals has been computed
C19_Witness ==
  /\ op.name = "calculate_earth_movers_distance"
  /\ counter_total(op.dist1) > 0
  /\ counter_total(op.dist2) > counter_total(op.dist1)
  /\ Support(op.dist1) \cap Support(op.dist2) = {}
  /\ raised = "none"
  /\ ret.value = Fraction(1, 1)

\* C20: the distance fails with EmptyDistributionError, and returns no
\* value, when the total count of either distribution is 0
C20_EmptyDistributionError ==
  (/\ op.name = "calculate_earth_movers_distance"
   /\ (counter_total(op.dist1) = 0 \/ counter_total(op.dist2) = 0)) =>
    /\ raised = "EmptyDistributionError"
    /\ ret = NoneValue

----------------------------------------------------------------------------
(* The claims that relate two operations *)

\* C26: the number of records method 'suppress' removes equals the
\* records_at_risk that check_k_anonymity reports for the same dataset,
\* quasi-identifiers and k, also when records have null quasi-identifiers
C26_SuppressedEqualsAtRisk ==
  (/\ op.name = "enforce_k_anonymity"
   /\ op.method = "suppress"
   /\ HasValidQuasiIdentifiers) =>
    /\ raised = "none"
    /\ len(op.df) - len(ret) =
         check_k_anonymity(op.df, op.quasi_identifiers, k).records_at_risk

\* C28: suppression is idempotent: method 'suppress' applied to its own
\* output, with the same quasi-identifiers and k, returns the same records
\* in the same order
C28_SuppressIdempotent ==
  (/\ op.name = "enforce_k_anonymity"
   /\ op.method = "suppress"
   /\ HasValidQuasiIdentifiers
   /\ raised = "none") =>
    LET again == enforce_k_anonymity(ret, op.quasi_identifiers, "suppress", k)
    IN  /\ again.raised = "none"
        /\ again.ret = ret

\* C29: if check_l_diversity passes with threshold l then check_k_anonymity
\* passes on the same dataset and quasi-identifiers for every k <= l, and
\* both checks report the same total_groups
C29_LDiversityImpliesKAnonymity ==
  (op.name = "check_l_diversity" /\ raised = "none") =>
    \A kv \in 1..l :
      LET k_anonymity == check_k_anonymity(op.df, op.quasi_identifiers, kv)
      IN  /\ ret.satisfies_l_diversity => k_anonymity.satisfies_k_anonymity
          /\ k_anonymity.total_groups = ret.total_groups

\* l-diversity passes with l = 2 on a dataset that has groups
C29_Witness ==
  /\ op.name = "check_l_diversity"
  /\ raised = "none"
  /\ l = 2
  /\ ret.satisfies_l_diversity
  /\ ret.total_groups >= 1

\* the dataset d loaded with the records at positions i and i + 1 exchanged
Exchanged(d, i) ==
  DataFrame(d.columns, d.index,
            [j \in 1..len(d) |->
               IF j = i THEN d.rows[i + 1]
               ELSE IF j = i + 1 THEN d.rows[i]
               ELSE d.rows[j]])

\* C30: the results of the three checkers do not depend on the order of the
\* records.  Every order of a dataset is reached by exchanging neighbouring
\* records, and the datasets checked are all the sequences of records, so
\* the claim is that on every dataset, with any two neighbouring records
\* exchanged, check_k_anonymity and check_l_diversity return the same result
\* and check_t_closeness the same pass/fail, total_groups, violating_groups
\* and max_distance
C30_OrderIndependent ==
  (op.name \in {"check_k_anonymity", "check_l_diversity", "check_t_closeness"}
   /\ raised = "none") =>
    \A i \in 1..(len(op.df) - 1) :
      LET d == Exchanged(op.df, i)
          qi == op.quasi_identifiers
      IN  CASE op.name = "check_k_anonymity" ->
                 check_k_anonymity(d, qi, k) = ret
            [] op.name = "check_l_diversity" ->
                 check_l_diversity(d, qi, op.sensitive_attribute, l) = ret
            [] op.name = "check_t_closeness" ->
                 LET r == check_t_closeness(d, qi, op.sensitive_attribute, t)
                 IN  /\ r.satisfies_t_closeness = ret.satisfies_t_closeness
                     /\ r.total_groups = ret.total_groups
                     /\ r.violating_groups = ret.violating_groups
                     /\ r.max_distance = ret.max_distance

\* a check of three records of which the first two differ, with a group
\* that violates k-anonymity
C30_Witness ==
  /\ op.name = "check_k_anonymity"
  /\ raised = "none"
  /\ len(op.df) = 3
  /\ op.df.rows[1] # op.df.rows[2]
  /\ ret.violating_groups >= 1
  /\ ret.total_groups >= 2

----------------------------------------------------------------------------
(* The claims about the audit *)

\* the pass/fail results in a report: the k-anonymity result, and the
\* l-diversity and t-closeness result of each entry of the attribute list
Passes(report, sensitive_attributes) ==
  [j \in 1..(1 + 2 * Len(sensitive_attributes)) |->
     IF j = 1 THEN report.k_anonymity.satisfies_k_anonymity
     ELSE IF j % 2 = 0
     THEN report.l_diversity[sensitive_attributes[j \div 2]].satisfies_l_diversity
     ELSE report.t_closeness[sensitive_attributes[j \div 2]].satisfies_t_closeness]

\* C21: overall_privacy_score is 100 exactly when every result of the report
\* passes, 0 exactly when every result fails, otherwise the exact mean of 100
\* per pass and 0 per fail, and always within [0, 100], also for an empty
\* attribute list
C21_OverallScore ==
  (op.name = "comprehensive_privacy_audit" /\ raised = "none") =>
    LET passes == Passes(ret, op.sensitive_attributes)
        n == Len(passes)
        passed == Cardinality({j \in 1..n : passes[j]})
        s == ret.overall_privacy_score
    IN  /\ (s = Fraction(100, 1)) <=> (passed = n)
        /\ (s = Fraction(0, 1)) <=> (passed = 0)
        /\ s.num * n = 100 * passed * s.den
        /\ 0 <= s.num /\ s.num <= 100 * s.den
        /\ s.den > 0

\* an audit of one attribute where exactly one of the three checks passes
C21_Witness ==
  /\ op.name = "comprehensive_privacy_audit"
  /\ raised = "none"
  /\ Len(op.sensitive_attributes) = 1
  /\ ret.overall_privacy_score = Fraction(100, 3)

\* the operations that only check
CheckerOperations ==
  {"comprehensive_privacy_audit", "check_k_anonymity", "check_l_diversity",
   "check_t_closeness"}

\* C22: the audit and the three checkers change neither the ledger, nor the
\* thresholds k, l, t, nor the caller's dataset, and every result of a report
\* carries the thresholds the engine was constructed with
C22_CheckersHaveNoSideEffect ==
  [][op'.name \in CheckerOperations =>
       /\ privacy_budget' = privacy_budget
       /\ k' = k /\ l' = l /\ t' = t
       /\ df' = df
       /\ (op'.name = "comprehensive_privacy_audit" /\ raised' = "none") =>
            /\ ret'.k_anonymity.k_value = k
            /\ \A attr \in DOMAIN ret'.l_diversity :
                 ret'.l_diversity[attr].l_value = l
            /\ \A attr \in DOMAIN ret'.t_closeness :
                 ret'.t_closeness[attr].t_value = t]_vars

\* an audit of a dataset by an engine whose thresholds are not the defaults
C22_Witness ==
  /\ op.name = "comprehensive_privacy_audit"
  /\ raised = "none"
  /\ len(op.df) > 0
  /\ k # DefaultK /\ l # DefaultL
  /\ DOMAIN ret.l_diversity # {}
  /\ df = op.df

\* C24: with an attribute named more than once in the list, the score is
\* still the mean of 100 per pass and 0 per fail over the results the report
\* holds: the k-anonymity result and one l-diversity and one t-closeness
\* result per attribute name
C24_DuplicatesCountedOnce ==
  (op.name = "comprehensive_privacy_audit" /\ raised = "none") =>
    LET attrs == DOMAIN ret.l_diversity
        n == 1 + 2 * Cardinality(attrs)
        passed ==
          (IF ret.k_anonymity.satisfies_k_anonymity THEN 1 ELSE 0)
          + Cardinality({a \in attrs : ret.l_diversity[a].satisfies_l_diversity})
          + Cardinality({a \in attrs : ret.t_closeness[a].satisfies_t_closeness})
        s == ret.overall_privacy_score
    IN  s.num * n = 100 * passed * s.den

----------------------------------------------------------------------------
(* The claims about callers that share one engine and about held reports *)

\* C25: when several callers are inside track_privacy_budget at once, the
\* write-back of the cumulative total and the append of the entry are
\* separate steps with no lock around them: no step changes both the total
\* and the entries
C25_StepsAreSeparate ==
  [][~(/\ privacy_budget'.epsilon # privacy_budget.epsilon
       /\ privacy_budget'.queries # privacy_budget.queries)]_vars

\* both callers have returned, every recorded epsilon is positive, and the
\* cumulative epsilon is not the sum of the recorded costs and the entries'
\* cumulative_epsilon values decrease somewhere
C25_Witness ==
  LET q == privacy_budget.queries
  IN  /\ \A c \in Callers : calls[c].pc = "idle"
      /\ \A i \in 1..Len(q) : q[i].epsilon > 0
      /\ privacy_budget.epsilon # SumSeq(q, Len(q))
      /\ \E i \in 2..Len(q) :
           q[i].cumulative_epsilon < q[i - 1].cumulative_epsilon

\* C23: the thresholds an engine holds are always in range: k >= 1, l >= 1
\* and 0 <= t <= 1
C23_ThresholdsInRange ==
  /\ k >= 1
  /\ l >= 1
  /\ 0 <= t
  /\ t <= UnitsPerOne

\* C27: a report the caller holds stays consistent while the engine records
\* further queries: its total_queries is the length of its queries and its
\* total_epsilon_used is the sum of the epsilon costs of its queries
C27_HeldReportConsistent ==
  budget_report.type = "dict" =>
    /\ budget_report.total_queries = Len(QueriesOf(budget_report))
    /\ budget_report.total_epsilon_used =
         SumSeq(QueriesOf(budget_report), Len(QueriesOf(budget_report)))

====
